---- MODULE Spec2Model ----
(***************************************************************************)
(* The virtual file system of the shell emulator (src/vfsEmulator.py) as a *)
(* state machine.  Python strings are sequences of one-character strings,  *)
(* so that pathlib's tokenisation, str.startswith and base64 decoding are  *)
(* computed on the characters and not assumed.  The VFSNode objects live   *)
(* in an arena: nodes[i] is the i-th VFSNode ever constructed, nodes[1] is *)
(* the root, and an object reference is an index (0 is Python's None).     *)
(* A dict is kept as the sequence of its values in insertion order, keyed  *)
(* by the name field of the value (add_child keys a child by its name).    *)
(* pathlib is modelled as PurePosixPath (the flavour Path takes on POSIX). *)
(***************************************************************************)
EXTENDS Integers, Sequences, FiniteSets, TLC

(* ---------------------------------------------------------------- bounds *)

\* The arena never holds more than MaxNodes VFSNode objects (root included).
MaxNodes == 4

\* A CSV file has at most MaxRows data rows.
MaxRows == 2

(* --------------------------------------------------------------- strings *)

None == 0

\* Python's None where a str is expected: no string of characters equals it.
NoneStr == <<"<None>">>

\* str.startswith('/')
StartsWithSlash(path) == Len(path) >= 1 /\ path[1] = "/"

RECURSIVE SplitSlash(_, _)
\* path.split('/'), cur being the piece read so far: every piece, the empty
\* ones included.
SplitSlash(path, cur) ==
  IF path = <<>> THEN <<cur>>
  ELSE IF Head(path) = "/" THEN <<cur>> \o SplitSlash(Tail(path), <<>>)
  ELSE SplitSlash(Tail(path), Append(cur, Head(path)))

\* The root pathlib reports for a POSIX path: '' for a relative path, '//'
\* for exactly two leading slashes, '/' for one or for three and more.
PosixRoot(path) ==
  IF ~StartsWithSlash(path) THEN <<>>
  ELSE IF Len(path) >= 2 /\ path[2] = "/" /\ ~(Len(path) >= 3 /\ path[3] = "/")
       THEN <<"/", "/">>
       ELSE <<"/">>

\* Path(path).parts: the root, when there is one, is the first part; empty
\* pieces and '.' pieces are dropped; '..' is kept as an ordinary part.
PathParts(path) ==
  LET pieces == SelectSeq(SplitSlash(path, <<>>),
                          LAMBDA s : s # <<>> /\ s # <<".">>)
      root   == PosixRoot(path)
  IN  IF root = <<>> THEN pieces ELSE <<root>> \o pieces

\* seq[:-1]
AllButLast(seq) == IF seq = <<>> THEN <<>> ELSE SubSeq(seq, 1, Len(seq) - 1)

\* seq[1:]
AllButFirst(seq) == IF seq = <<>> THEN <<>> ELSE Tail(seq)

(* ----------------------------------------------------------------- nodes *)

\* VFSNode.__init__
VFSNode(name, is_directory, content, parent) ==
  [name |-> name, is_directory |-> is_directory, content |-> content,
   children |-> <<>>, parent |-> parent]

\* node.children.get(name): the child of node n keyed by name, or None.
ChildNamed(ns, n, name) ==
  LET hits == {i \in 1..Len(ns[n].children) : ns[ns[n].children[i]].name = name}
  IN  IF hits = {} THEN None ELSE ns[n].children[CHOOSE i \in hits : TRUE]

\* AddChild with line 23 as node.parent = node: the child is its own
\* parent.
AddChildParentIsItself(ns, self, node) ==
  LET id   == Len(ns) + 1
      kids == ns[self].children
      hits == {i \in 1..Len(kids) : ns[kids[i]].name = node.name}
      kids2 == IF hits = {} THEN Append(kids, id)
               ELSE [i \in 1..Len(kids) |-> IF i \in hits THEN id ELSE kids[i]]
  IN  Append([ns EXCEPT ![self].children = kids2],
             [node EXCEPT !.parent = id])

\* VFSNode.add_child, the child being a node just constructed: it takes the
\* next index of the arena.  children[node.name] = node keeps the position of
\* a key the dict already holds and appends a new key; node.parent = self.
AddChild(ns, self, node) ==
  LET id   == Len(ns) + 1
      kids == ns[self].children
      hits == {i \in 1..Len(kids) : ns[kids[i]].name = node.name}
      kids2 == IF hits = {} THEN Append(kids, id)
               ELSE [i \in 1..Len(kids) |-> IF i \in hits THEN id ELSE kids[i]]
  IN  Append([ns EXCEPT ![self].children = kids2],
             [node EXCEPT !.parent = self])

Root == 1

\* VirtualFileSystem.__init__: the arena holding the root alone.
FreshNodes == <<VFSNode(<<>>, TRUE, <<>>, None)>>

(* ------------------------------------------------------------ the VFS *)

RECURSIVE CreateIntermediateLeavesFile(_, _, _)
\* CreateIntermediate without lines 85-88: a file met on the way is entered
\* and left a file.
CreateIntermediateLeavesFile(ns, current_node, parts) ==
  IF parts = <<>> THEN [nodes |-> ns, current_node |-> current_node]
  ELSE
    LET part  == Head(parts)
        child == ChildNamed(ns, current_node, part)
    IN  IF child = None
        THEN CreateIntermediateLeavesFile(
               AddChild(ns, current_node, VFSNode(part, TRUE, <<>>, current_node)),
               Len(ns) + 1, Tail(parts))
        ELSE CreateIntermediateLeavesFile(ns, child, Tail(parts))

RECURSIVE CreateIntermediateKeepsContent(_, _, _)
\* CreateIntermediate without line 88: a file met on the way becomes a
\* directory that keeps the content.
CreateIntermediateKeepsContent(ns, current_node, parts) ==
  IF parts = <<>> THEN [nodes |-> ns, current_node |-> current_node]
  ELSE
    LET part  == Head(parts)
        child == ChildNamed(ns, current_node, part)
    IN  IF child = None
        THEN CreateIntermediateKeepsContent(
               AddChild(ns, current_node, VFSNode(part, TRUE, <<>>, current_node)),
               Len(ns) + 1, Tail(parts))
        ELSE CreateIntermediateKeepsContent(
               [ns EXCEPT ![child].is_directory = TRUE], child, Tail(parts))

RECURSIVE CreateIntermediate(_, _, _)
\* _create_path, the loop over parts[:-1]: a missing part becomes a new
\* directory child, an existing one is entered and, when it is a file, turned
\* into a directory with its content cleared.  The arena and the node the
\* loop ends on.
CreateIntermediate(ns, current_node, parts) ==
  IF parts = <<>> THEN [nodes |-> ns, current_node |-> current_node]
  ELSE
    LET part  == Head(parts)
        child == ChildNamed(ns, current_node, part)
    IN  IF child = None
        THEN CreateIntermediate(
               AddChild(ns, current_node, VFSNode(part, TRUE, <<>>, current_node)),
               Len(ns) + 1, Tail(parts))
        ELSE CreateIntermediate(
               IF ~ns[child].is_directory
               THEN [ns EXCEPT ![child].is_directory = TRUE,
                               ![child].content = <<>>]
               ELSE ns,
               child, Tail(parts))

\* CreateFinal without the test of line 91: a node is constructed and added
\* whether the last part is there or not, add_child replacing the entry.
CreateFinalAlwaysAddsNode(ns, current_node, last_part, is_directory, content) ==
  AddChild(ns, current_node,
           VFSNode(last_part, is_directory, content, current_node))

\* CreateFinal without the test of line 99: an existing node takes the
\* given content whatever the kind.
CreateFinalAlwaysSetsContent(ns, current_node, last_part, is_directory, content) ==
  LET existing_node == ChildNamed(ns, current_node, last_part)
  IN  IF existing_node = None
      THEN AddChild(ns, current_node,
                    VFSNode(last_part, is_directory, content, current_node))
      ELSE [ns EXCEPT ![existing_node].is_directory = is_directory,
                      ![existing_node].content = content]

\* _create_path, the final node: a missing last part becomes a new node of
\* the given kind and content; an existing one takes the given kind and,
\* only for a file, the given content.
CreateFinal(ns, current_node, last_part, is_directory, content) ==
  LET existing_node == ChildNamed(ns, current_node, last_part)
  IN  IF existing_node = None
      THEN AddChild(ns, current_node,
                    VFSNode(last_part, is_directory, content, current_node))
      ELSE IF ~is_directory
           THEN [ns EXCEPT ![existing_node].is_directory = is_directory,
                           ![existing_node].content = content]
           ELSE [ns EXCEPT ![existing_node].is_directory = is_directory]

\* VirtualFileSystem._create_path on the arena ns.  parts[-1] of an empty
\* tuple raises IndexError, after a loop over no parts: raised, the arena
\* as it was.
CreatePathOn(ns, path, is_directory, content) ==
  LET parts == PathParts(path)
  IN  IF parts = <<>> THEN [raised |-> TRUE, nodes |-> ns]
      ELSE LET w == CreateIntermediate(ns, Root, AllButLast(parts))
           IN  [raised |-> FALSE,
                nodes  |-> CreateFinal(w.nodes, w.current_node,
                                       parts[Len(parts)], is_directory, content)]

RECURSIVE ResolveParts(_, _, _)
\* _resolve_path, the loop over path_parts from current_node: '.' is
\* skipped, '..' goes to the parent and yields None where there is none, any
\* other part goes to the child of that name and yields None where there is
\* none.
ResolveParts(ns, current_node, path_parts) ==
  IF path_parts = <<>> THEN current_node
  ELSE
    LET part == Head(path_parts)
    IN  IF part = <<".">> THEN ResolveParts(ns, current_node, Tail(path_parts))
        ELSE IF part = <<".", ".">>
             THEN IF ns[current_node].parent # None
                  THEN ResolveParts(ns, ns[current_node].parent, Tail(path_parts))
                  ELSE None
        ELSE IF ChildNamed(ns, current_node, part) # None
             THEN ResolveParts(ns, ChildNamed(ns, current_node, part),
                               Tail(path_parts))
        ELSE None

\* VirtualFileSystem._resolve_path: an absolute path starts at the root with
\* parts[1:], a relative one at the current directory with all parts.
ResolvePathOn(ns, cur, path) ==
  IF StartsWithSlash(path)
  THEN ResolveParts(ns, Root, AllButFirst(PathParts(path)))
  ELSE ResolveParts(ns, cur, PathParts(path))

\* VirtualFileSystem.read_file: the content of a resolved file, else None.
ReadFileOn(ns, cur, path) ==
  LET target_node == ResolvePathOn(ns, cur, path)
  IN  IF target_node # None /\ ~ns[target_node].is_directory
      THEN ns[target_node].content
      ELSE NoneStr

RECURSIVE NamesToRoot(_, _)
\* get_current_path, the loop: the names from node up to, not including,
\* the root (or the end of the parent chain).
NamesToRoot(ns, node) ==
  IF node = None \/ node = Root THEN <<>>
  ELSE <<ns[node].name>> \o NamesToRoot(ns, ns[node].parent)

RECURSIVE Reversed(_)
Reversed(seq) ==
  IF seq = <<>> THEN <<>> ELSE Append(Reversed(Tail(seq)), Head(seq))

RECURSIVE JoinSlash(_)
\* '/'.join(names)
JoinSlash(names) ==
  IF names = <<>> THEN <<>>
  ELSE IF Len(names) = 1 THEN names[1]
  ELSE names[1] \o <<"/">> \o JoinSlash(Tail(names))

\* GetCurrentPathOn without reversed(): the names from the current
\* directory up.
GetCurrentPathNotReversed(ns, cur) ==
  LET path_parts == NamesToRoot(ns, cur)
  IN  IF path_parts # <<>> THEN <<"/">> \o JoinSlash(path_parts)
      ELSE <<"/">>

\* VirtualFileSystem.get_current_path
GetCurrentPathOn(ns, cur) ==
  LET path_parts == NamesToRoot(ns, cur)
  IN  IF path_parts # <<>> THEN <<"/">> \o JoinSlash(Reversed(path_parts))
      ELSE <<"/">>

\* str(path) of a pathlib path with these parts: '.' without parts, else
\* the root followed by the other parts joined with '/'.
PathStr(parts) ==
  IF parts = <<>> THEN <<".">>
  ELSE IF StartsWithSlash(parts[1]) THEN parts[1] \o JoinSlash(Tail(parts))
  ELSE JoinSlash(parts)

\* The parts of Path(p) / name, p given by its parts: a name that starts
\* with '/' replaces p.
TrueDiv(parts, name) ==
  IF StartsWithSlash(name) THEN PathParts(name) ELSE parts \o PathParts(name)

RECURSIVE GetPathOn(_, _)
\* VFSNode.get_path
GetPathOn(ns, self) ==
  IF ns[self].parent = None THEN ns[self].name
  ELSE PathStr(TrueDiv(PathParts(GetPathOn(ns, ns[self].parent)),
                       ns[self].name))

(* ------------------------------------------------------------ the loader *)

\* The characters str.strip() removes (the ASCII whitespace).
Whitespace == { " ", "<0x09>", "<0x0a>", "<0x0b>", "<0x0c>", "<0x0d>" }

RECURSIVE LStrip(_)
LStrip(s) ==
  IF s # <<>> /\ Head(s) \in Whitespace THEN LStrip(Tail(s)) ELSE s

\* str.strip()
Strip(s) == Reversed(LStrip(Reversed(LStrip(s))))

UpperLetters ==
  << "A", "B", "C", "D", "E", "F", "G", "H", "I", "J", "K", "L", "M", "N", "O", "P", "Q", "R", "S", "T", "U", "V", "W", "X", "Y", "Z" >>

LowerLetters ==
  << "a", "b", "c", "d", "e", "f", "g", "h", "i", "j", "k", "l", "m", "n", "o", "p", "q", "r", "s", "t", "u", "v", "w", "x", "y", "z" >>

\* str.lower(), on ASCII
Lower(s) ==
  [i \in 1..Len(s) |->
     IF \E k \in 1..Len(UpperLetters) : UpperLetters[k] = s[i]
     THEN LowerLetters[CHOOSE k \in 1..Len(UpperLetters) : UpperLetters[k] = s[i]]
     ELSE s[i]]

\* The base64 alphabet: the character of value i is Base64Alphabet[i + 1].
Base64Alphabet ==
  <<
    "A", "B", "C", "D", "E", "F", "G", "H", "I", "J", "K", "L", "M", "N", "O", "P",
    "Q", "R", "S", "T", "U", "V", "W", "X", "Y", "Z", "a", "b", "c", "d", "e", "f",
    "g", "h", "i", "j", "k", "l", "m", "n", "o", "p", "q", "r", "s", "t", "u", "v",
    "w", "x", "y", "z", "0", "1", "2", "3", "4", "5", "6", "7", "8", "9", "+", "/"
  >>

\* chr(i) for the 128 ASCII codes is Ascii[i + 1]; a character that does not
\* print, the quote, the backslash and the backquote are written <0xNN>.
Ascii ==
  <<
    "<0x00>", "<0x01>", "<0x02>", "<0x03>", "<0x04>", "<0x05>", "<0x06>", "<0x07>", "<0x08>", "<0x09>", "<0x0a>", "<0x0b>",
    "<0x0c>", "<0x0d>", "<0x0e>", "<0x0f>", "<0x10>", "<0x11>", "<0x12>", "<0x13>", "<0x14>", "<0x15>", "<0x16>", "<0x17>",
    "<0x18>", "<0x19>", "<0x1a>", "<0x1b>", "<0x1c>", "<0x1d>", "<0x1e>", "<0x1f>", " ", "!", "<0x22>", "#",
    "$", "%", "&", "'", "(", ")", "*", "+", ",", "-", ".", "/",
    "0", "1", "2", "3", "4", "5", "6", "7", "8", "9", ":", ";",
    "<", "=", ">", "?", "@", "A", "B", "C", "D", "E", "F", "G",
    "H", "I", "J", "K", "L", "M", "N", "O", "P", "Q", "R", "S",
    "T", "U", "V", "W", "X", "Y", "Z", "[", "<0x5c>", "]", "^", "_",
    "<0x60>", "a", "b", "c", "d", "e", "f", "g", "h", "i", "j", "k",
    "l", "m", "n", "o", "p", "q", "r", "s", "t", "u", "v", "w",
    "x", "y", "z", "{", "|", "}", "~", "<0x7f>"
  >>

RECURSIVE A2bBase64(_, _, _, _, _)
\* binascii.a2b_base64 outside strict mode, which base64.b64decode calls: a
\* character outside the alphabet is skipped; each alphabet character adds
\* six bits; a '=' that completes the quad ends the decoding, whatever
\* follows; input that ends inside a quad raises binascii.Error.
\* [raised, bytes].
A2bBase64(s, quad_pos, leftchar, pads, out) ==
  IF s = <<>>
  THEN [raised |-> quad_pos # 0, bytes |-> out]
  ELSE
    LET this_ch == Head(s)
        hits    == {k \in 1..Len(Base64Alphabet) : Base64Alphabet[k] = this_ch}
        v       == (CHOOSE k \in hits : TRUE) - 1
    IN  IF this_ch = "="
        THEN IF quad_pos >= 2 /\ quad_pos + pads + 1 >= 4
             THEN [raised |-> FALSE, bytes |-> out]
             ELSE A2bBase64(Tail(s), quad_pos, leftchar,
                            IF quad_pos >= 2 THEN pads + 1 ELSE pads, out)
        ELSE IF hits = {}
        THEN A2bBase64(Tail(s), quad_pos, leftchar, pads, out)
        ELSE IF quad_pos = 0
        THEN A2bBase64(Tail(s), 1, v, 0, out)
        ELSE IF quad_pos = 1
        THEN A2bBase64(Tail(s), 2, v % 16, 0,
                       Append(out, (leftchar * 4 + v \div 16) % 256))
        ELSE IF quad_pos = 2
        THEN A2bBase64(Tail(s), 3, v % 4, 0,
                       Append(out, (leftchar * 16 + v \div 4) % 256))
        ELSE A2bBase64(Tail(s), 0, 0, 0,
                       Append(out, (leftchar * 64 + v) % 256))

\* bytes.decode('utf-8'): ASCII bytes decode to their characters.  A byte
\* from 0x80 up raises UnicodeDecodeError: the model carries no character
\* outside ASCII, and the contents it loads hold no valid multi-byte
\* sequence.  [raised, text].
Utf8Decode(bytes) ==
  IF \E i \in 1..Len(bytes) : bytes[i] >= 128
  THEN [raised |-> TRUE, text |-> <<>>]
  ELSE [raised |-> FALSE, text |-> [i \in 1..Len(bytes) |-> Ascii[bytes[i] + 1]]]

\* base64.b64decode(content).decode('utf-8'); content None raises TypeError.
\* [raised, text].
B64DecodeUtf8(content) ==
  IF content = NoneStr THEN [raised |-> TRUE, text |-> <<>>]
  ELSE LET b == A2bBase64(content, 0, 0, 0, <<>>)
       IN  IF b.raised THEN [raised |-> TRUE, text |-> <<>>]
           ELSE Utf8Decode(b.bytes)

\* row.get(key, default): the dict of a row has the fields of the header; a
\* field the row is too short for holds None.
RowGet(row, key, default) == IF key \in DOMAIN row THEN row[key] ELSE default

\* LoadRow with the decoding outside the try of lines 57-61: a content
\* that does not decode leaves the body of the loop.
LoadRowDecodeFailureRaises(ns, row) ==
  IF "path" \notin DOMAIN row \/ row.path = NoneStr
     \/ RowGet(row, "type", <<"f", "i", "l", "e">>) = NoneStr
  THEN [raised |-> TRUE, nodes |-> ns, path |-> NoneStr]
  ELSE
    LET path         == Strip(row.path)
        is_directory == Lower(Strip(RowGet(row, "type", <<"f", "i", "l", "e">>)))
                          = <<"d", "i", "r", "e", "c", "t", "o", "r", "y">>
        raw          == RowGet(row, "content", <<>>)
        dec          == B64DecodeUtf8(raw)
        decoding     == ~is_directory
                           /\ RowGet(row, "encoding", NoneStr)
                                = <<"b", "a", "s", "e", "6", "4">>
        content      == IF decoding THEN dec.text ELSE raw
        r            == CreatePathOn(ns, path, is_directory, content)
    IN  IF decoding /\ dec.raised
        THEN [raised |-> TRUE, nodes |-> ns, path |-> path]
        ELSE [raised |-> r.raised, nodes |-> r.nodes, path |-> path]

\* load_from_csv, the body of the loop for one row on the arena ns: the
\* path stripped, the kind read off the type column, the content decoded
\* when the row is a file with encoding base64 (a failed decoding keeps the
\* content as it stands), then _create_path.  row['path'] without that
\* column, .strip() on None and an exception of _create_path leave the
\* body: raised.
LoadRow(ns, row) ==
  IF "path" \notin DOMAIN row \/ row.path = NoneStr
     \/ RowGet(row, "type", <<"f", "i", "l", "e">>) = NoneStr
  THEN [raised |-> TRUE, nodes |-> ns, path |-> NoneStr]
  ELSE
    LET path         == Strip(row.path)
        is_directory == Lower(Strip(RowGet(row, "type", <<"f", "i", "l", "e">>)))
                          = <<"d", "i", "r", "e", "c", "t", "o", "r", "y">>
        raw          == RowGet(row, "content", <<>>)
        dec          == B64DecodeUtf8(raw)
        content      == IF ~is_directory
                           /\ RowGet(row, "encoding", NoneStr)
                                = <<"b", "a", "s", "e", "6", "4">>
                           /\ ~dec.raised
                        THEN dec.text ELSE raw
        r            == CreatePathOn(ns, path, is_directory, content)
    IN  [raised |-> r.raised, nodes |-> r.nodes, path |-> path]

RECURSIVE LoadRowsRollsBack(_, _, _, _)
\* LoadRows with a rollback: a row that raises leaves the VFS as it was
\* constructed.
LoadRowsRollsBack(ns, rows, applied, paths) ==
  IF rows = <<>>
  THEN [nodes |-> ns, applied |-> applied, aborted |-> FALSE, paths |-> paths]
  ELSE LET r == LoadRow(ns, Head(rows))
       IN  IF r.raised
           THEN [nodes |-> FreshNodes, applied |-> applied, aborted |-> TRUE,
                 paths |-> paths]
           ELSE LoadRowsRollsBack(r.nodes, Tail(rows), applied + 1,
                                  paths \cup {r.path})

RECURSIVE LoadRows(_, _, _, _)
\* load_from_csv, the loop over the rows: the first row that raises ends
\* the load (the except clause around the loop).  The arena, the number of
\* rows applied, whether the load was aborted, the paths created.
LoadRows(ns, rows, applied, paths) ==
  IF rows = <<>>
  THEN [nodes |-> ns, applied |-> applied, aborted |-> FALSE, paths |-> paths]
  ELSE LET r == LoadRow(ns, Head(rows))
       IN  IF r.raised
           THEN [nodes |-> r.nodes, applied |-> applied, aborted |-> TRUE,
                 paths |-> paths]
           ELSE LoadRows(r.nodes, Tail(rows), applied + 1, paths \cup {r.path})


(* ---------------------------------------------------- listing and search *)

\* ord(c) of a character of the table.
Ord(c) == (CHOOSE i \in 1..Len(Ascii) : Ascii[i] = c) - 1

RECURSIVE StrLess(_, _)
\* s < t on str: the first differing character decides by its code, a
\* proper prefix is smaller.
StrLess(s, t) ==
  IF t = <<>> THEN FALSE
  ELSE IF s = <<>> THEN TRUE
  ELSE IF Head(s) = Head(t) THEN StrLess(Tail(s), Tail(t))
  ELSE Ord(Head(s)) < Ord(Head(t))

\* The key of line 145 compared: (x['type'] != 'directory', x['name']), a
\* tuple, False before True.
KeyLess(x, y) ==
  IF (x.type # "directory") # (y.type # "directory")
  THEN x.type = "directory"
  ELSE StrLess(x.name, y.name)

RECURSIVE SortedByKey(_)
\* sorted(result, key=...): stable, an entry goes behind the entries whose
\* key is not greater.
SortedByKey(result) ==
  IF result = <<>> THEN <<>>
  ELSE LET x    == result[Len(result)]
           rest == SortedByKey(AllButLast(result))
           k    == Cardinality({i \in 1..Len(rest) : ~KeyLess(x, rest[i])})
       IN  SubSeq(rest, 1, k) \o <<x>> \o SubSeq(rest, k + 1, Len(rest))

\* The entry list_directory builds for a child (lines 138-142).
Entry(ns, node) ==
  [name |-> ns[node].name,
   type |-> IF ns[node].is_directory THEN "directory" ELSE "file",
   size |-> IF ~ns[node].is_directory THEN Len(ns[node].content) ELSE 0]

\* ListDirectoryOn without the sorted() of line 145: the entries in the
\* order of the dict.
ListDirectoryUnsorted(ns, cur, path) ==
  LET target_node == IF path # <<>> THEN ResolvePathOn(ns, cur, path) ELSE cur
  IN  IF target_node = None \/ ~ns[target_node].is_directory
      THEN [raised |-> FALSE, is_none |-> FALSE, items |-> <<>>]
      ELSE LET kids == ns[target_node].children
           IN  IF \E i \in 1..Len(kids) :
                    ~ns[kids[i]].is_directory /\ ns[kids[i]].content = NoneStr
               THEN [raised |-> TRUE, is_none |-> FALSE, items |-> <<>>]
               ELSE [raised |-> FALSE, is_none |-> FALSE,
                     items |-> [i \in 1..Len(kids) |-> Entry(ns, kids[i])]]

\* list_directory: what it returns.  The value is a list in every case
\* (line 134 returns [], never None): is_none tells whether the value is
\* None, items is the list.  len() of a content that is None raises.
ListDirectoryOn(ns, cur, path) ==
  LET target_node == IF path # <<>> THEN ResolvePathOn(ns, cur, path) ELSE cur
  IN  IF target_node = None \/ ~ns[target_node].is_directory
      THEN [raised |-> FALSE, is_none |-> FALSE, items |-> <<>>]
      ELSE LET kids == ns[target_node].children
           IN  IF \E i \in 1..Len(kids) :
                    ~ns[kids[i]].is_directory /\ ns[kids[i]].content = NoneStr
               THEN [raised |-> TRUE, is_none |-> FALSE, items |-> <<>>]
               ELSE [raised |-> FALSE, is_none |-> FALSE,
                     items |-> SortedByKey(
                       [i \in 1..Len(kids) |-> Entry(ns, kids[i])])]

\* ShellEmulator._cmd_ls with a VFS, lines 79-91 and 107: the exit code.
CmdLsOn(ns, cur, args) ==
  LET path  == IF args # <<>> THEN args[1] ELSE <<>>
      items == ListDirectoryOn(ns, cur, path)
  IN  [items |-> items, exit |-> IF items.is_none THEN 1 ELSE 0]

\* search_name in name
Contains(name, search_name) ==
  \E i \in 0..(Len(name) - Len(search_name)) :
    SubSeq(name, i + 1, i + Len(search_name)) = search_name

RECURSIVE SearchRecursiveSorted(_, _, _, _, _)
\* SearchRecursive going through the children in the order of their names
\* instead of the order of the dict.
SearchRecursiveSorted(ns, node, current_path, search_name, i) ==
  LET kids == ns[node].children
      byName == SortedByKey([j \in 1..Len(kids) |->
                  [name |-> ns[kids[j]].name, type |-> "file", id |-> kids[j]]])
  IN
  IF i > Len(kids) THEN <<>>
  ELSE
    LET child      == byName[i].id
        name       == ns[child].name
        child_path == IF current_path # <<"/">>
                      THEN current_path \o <<"/">> \o name
                      ELSE <<"/">> \o name
        here       == IF Contains(name, search_name)
                      THEN <<[path |-> child_path, node |-> child]>> ELSE <<>>
        below      == IF ns[child].is_directory
                      THEN SearchRecursiveSorted(ns, child, child_path,
                                                 search_name, 1)
                      ELSE <<>>
    IN  here \o below
          \o SearchRecursiveSorted(ns, node, current_path, search_name, i + 1)

RECURSIVE SearchRecursive(_, _, _, _, _)
\* search_recursive(node, current_path) from the i-th child of node on: the
\* paths appended, in the order of node.children.items().  With each path
\* goes, as history, the node it was appended for.
SearchRecursive(ns, node, current_path, search_name, i) ==
  LET kids == ns[node].children
  IN
  IF i > Len(kids) THEN <<>>
  ELSE
    LET child      == kids[i]
        name       == ns[child].name
        child_path == IF current_path # <<"/">>
                      THEN current_path \o <<"/">> \o name
                      ELSE <<"/">> \o name
        here       == IF Contains(name, search_name)
                      THEN <<[path |-> child_path, node |-> child]>> ELSE <<>>
        below      == IF ns[child].is_directory
                      THEN SearchRecursive(ns, child, child_path, search_name, 1)
                      ELSE <<>>
    IN  here \o below
          \o SearchRecursive(ns, node, current_path, search_name, i + 1)

\* find_files: the paths found, each with the node it names.
FindFilesOn(ns, cur, search_name, start_path) ==
  LET start_node == ResolvePathOn(ns, cur, start_path)
  IN  IF start_node = None THEN <<>>
      ELSE SearchRecursive(ns, start_node, start_path, search_name, 1)

(* ---------------------------------------------------------------- inputs *)

\* The path strings handed to _create_path: relative, absolute, empty, one
\* whose last part is '..'.
CreatePaths ==
  { <<"a">>, <<"b">>, <<"a", "/", "b">>, <<"/", "a">>, <<>>,
    <<"a", "/", ".", ".">> }

\* Path strings of separators alone.
SlashPaths == { <<"/">>, <<"/", "/">> }

\* The kind and content handed to _create_path with a path: a directory
\* comes with no content, a file with content.
CreateKinds ==
  { [is_directory |-> TRUE, content |-> <<>>],
    [is_directory |-> FALSE, content |-> <<"x">>] }

\* The targets handed to change_directory.
CdPaths ==
  { <<".", ".">>, <<"~">>, <<"/">>, <<"a">>, <<"b">>, <<"/", "a", "/", "b">>,
    <<".", ".", "/", "b">> }

\* The rows of a CSV file with the columns path, type, content, encoding:
\* absolute and relative paths, a blank path and a row too short to have
\* one, both kinds, a content that is the base64 of "x" and one that is no
\* base64 at all, with and without the encoding.
CsvRows ==
  [ path     : { <<"/", "a">>, <<"a">>, <<"a", "/", "b">>, <<" ">>, NoneStr },
    type     : { <<"f", "i", "l", "e">>,
                 <<"d", "i", "r", "e", "c", "t", "o", "r", "y">> },
    content  : { <<"e", "A", "=", "=">>, <<"x">> },
    encoding : { <<"b", "a", "s", "e", "6", "4">>, <<>> } ]

\* The CSV files: up to MaxRows rows.
CsvFiles == UNION { [1..n -> CsvRows] : n \in 0..MaxRows }

\* The paths handed to the queries.
QueryPaths ==
  { <<"a">>, <<".", ".", "/", "a">>, <<".", ".">> }

\* The paths handed to list_directory: the default and a name.
ListPaths == { <<>>, <<"a">> }

\* The arguments of find_files: every name from the default start, one name
\* from the root, every name from a start that is a name.
FindArgs ==
  { [search_name |-> <<>>, start_path |-> <<".">>],
    [search_name |-> <<"b">>, start_path |-> <<"/">>],
    [search_name |-> <<>>, start_path |-> <<"a">>] }

(* ----------------------------------------------------------------- state *)

VARIABLES
  nodes,        \* the arena of VFSNode objects; nodes[Root] is vfs.root
  current_dir,  \* vfs.current_dir, an index into nodes
  last,         \* the last call made on the VFS: its name, arguments, result
  created       \* history: the paths of the _create_path calls that returned

vars == <<nodes, current_dir, last, created>>

\* VirtualFileSystem.__init__
Init ==
  /\ nodes = FreshNodes
  /\ current_dir = Root
  /\ last = [op |-> "init"]
  /\ created = {}

RECURSIVE Descend(_, _, _)
\* The node reached from n by following the child of each name in turn (a
\* plain lookup in children, '..' being a name like any other), or None.
Descend(ns, n, names) ==
  IF names = <<>> THEN n
  ELSE IF ChildNamed(ns, n, Head(names)) = None THEN None
  ELSE Descend(ns, ChildNamed(ns, n, Head(names)), Tail(names))

\* The node the first k parts of path name, from the root.
PrefixNode(ns, path, k) == Descend(ns, Root, SubSeq(PathParts(path), 1, k))

\* History: the proper prefixes of path that name a file in ns.
FilePrefixes(ns, path) ==
  {k \in 1..(Len(PathParts(path)) - 1) :
     /\ PrefixNode(ns, path, k) # None
     /\ ~ns[PrefixNode(ns, path, k)].is_directory}

\* History: whether the node path names is in ns already.
FinalExisted(ns, path) ==
  PathParts(path) # <<>> /\ PrefixNode(ns, path, Len(PathParts(path))) # None

\* A call of _create_path.
CreatePath(path, is_directory, content) ==
  LET r == CreatePathOn(nodes, path, is_directory, content)
  IN  /\ Len(r.nodes) <= MaxNodes
      /\ nodes' = r.nodes
      /\ created' = IF r.raised THEN created ELSE created \cup {path}
      /\ last' = [op |-> "create_path", path |-> path,
                  is_directory |-> is_directory, content |-> content,
                  raised |-> r.raised,
                  existed |-> FinalExisted(nodes, path),
                  coerced |-> FilePrefixes(nodes, path) # {}]
      /\ UNCHANGED current_dir

\* ChangeDirectoryOn without the test of is_directory on line 123.
ChangeDirectoryIntoFiles(ns, cur, path) ==
  IF path = <<".", ".">>
  THEN [current_dir |-> IF ns[cur].parent # None THEN ns[cur].parent ELSE cur,
        ret |-> TRUE]
  ELSE IF path = <<"~">> \/ path = <<"/">>
  THEN [current_dir |-> Root, ret |-> TRUE]
  ELSE LET target_node == ResolvePathOn(ns, cur, path)
       IN  IF target_node # None
           THEN [current_dir |-> target_node, ret |-> TRUE]
           ELSE [current_dir |-> cur, ret |-> FALSE]

\* ChangeDirectoryOn with line 115 inside the test of line 113: '..' on
\* the root fails.
ChangeDirectoryFailsAboveRoot(ns, cur, path) ==
  IF path = <<".", ".">>
  THEN [current_dir |-> IF ns[cur].parent # None THEN ns[cur].parent ELSE cur,
        ret |-> ns[cur].parent # None]
  ELSE IF path = <<"~">> \/ path = <<"/">>
  THEN [current_dir |-> Root, ret |-> TRUE]
  ELSE LET target_node == ResolvePathOn(ns, cur, path)
       IN  IF target_node # None /\ ns[target_node].is_directory
           THEN [current_dir |-> target_node, ret |-> TRUE]
           ELSE [current_dir |-> cur, ret |-> FALSE]

\* The node change_directory leaves vfs.current_dir on, and what it returns.
ChangeDirectoryOn(ns, cur, path) ==
  IF path = <<".", ".">>
  THEN [current_dir |-> IF ns[cur].parent # None THEN ns[cur].parent ELSE cur,
        ret |-> TRUE]
  ELSE IF path = <<"~">> \/ path = <<"/">>
  THEN [current_dir |-> Root, ret |-> TRUE]
  ELSE LET target_node == ResolvePathOn(ns, cur, path)
       IN  IF target_node # None /\ ns[target_node].is_directory
           THEN [current_dir |-> target_node, ret |-> TRUE]
           ELSE [current_dir |-> cur, ret |-> FALSE]

\* A call of change_directory.
ChangeDirectory(path) ==
  LET r == ChangeDirectoryOn(nodes, current_dir, path)
  IN  /\ current_dir' = r.current_dir
      /\ last' = [op |-> "change_directory", path |-> path, ret |-> r.ret,
                  from |-> current_dir]
      /\ UNCHANGED <<nodes, created>>

\* A call of read_file.
ReadFile(path) ==
  /\ last' = [op |-> "read_file", path |-> path,
              ret |-> ReadFileOn(nodes, current_dir, path)]
  /\ UNCHANGED <<nodes, current_dir, created>>

\* A call of get_directory_tree, which returns what _resolve_path returns.
GetDirectoryTree(path) ==
  /\ last' = [op |-> "get_directory_tree", path |-> path,
              ret |-> ResolvePathOn(nodes, current_dir, path)]
  /\ UNCHANGED <<nodes, current_dir, created>>

\* A call of get_current_path.
GetCurrentPath ==
  /\ last' = [op |-> "get_current_path",
              ret |-> GetCurrentPathOn(nodes, current_dir)]
  /\ UNCHANGED <<nodes, current_dir, created>>

\* A call of list_directory.
ListDirectory(path) ==
  /\ last' = [op |-> "list_directory", path |-> path,
              ret |-> ListDirectoryOn(nodes, current_dir, path)]
  /\ UNCHANGED <<nodes, current_dir, created>>

\* The command ls of the shell on a VFS.
CmdLs(args) ==
  LET r == CmdLsOn(nodes, current_dir, args)
  IN  /\ last' = [op |-> "ls", args |-> args, ret |-> r.items,
                  exit |-> r.exit]
      /\ UNCHANGED <<nodes, current_dir, created>>

\* FindFiles as a search that first makes the start its current directory.
FindFilesMovesCursor(search_name, start_path) ==
  /\ last' = [op |-> "find_files", search_name |-> search_name,
              start_path |-> start_path,
              ret |-> FindFilesOn(nodes, current_dir, search_name, start_path)]
  /\ current_dir' = IF ResolvePathOn(nodes, current_dir, start_path) # None
                    THEN ResolvePathOn(nodes, current_dir, start_path)
                    ELSE current_dir
  /\ UNCHANGED <<nodes, created>>

\* A call of find_files.
FindFiles(search_name, start_path) ==
  /\ last' = [op |-> "find_files", search_name |-> search_name,
              start_path |-> start_path,
              ret |-> FindFilesOn(nodes, current_dir, search_name, start_path)]
  /\ UNCHANGED <<nodes, current_dir, created>>

\* A call of get_path on a node of the tree.
GetPath(node) ==
  /\ last' = [op |-> "get_path", node |-> node,
              ret |-> GetPathOn(nodes, node)]
  /\ UNCHANGED <<nodes, current_dir, created>>

\* A call of load_from_csv on a file that opens and holds these rows.
LoadFromCsv(rows) ==
  LET r == LoadRows(nodes, rows, 0, {})
  IN  /\ nodes' = r.nodes
      /\ created' = created \cup r.paths
      /\ last' = [op |-> "load_from_csv", rows |-> rows,
                  applied |-> r.applied, aborted |-> r.aborted]
      /\ UNCHANGED current_dir

Next ==
  \/ \E path \in CreatePaths, kind \in CreateKinds :
       CreatePath(path, kind.is_directory, kind.content)
  \/ \E path \in CdPaths : ChangeDirectory(path)
  \/ \E path \in QueryPaths : ReadFile(path)
  \/ \E path \in QueryPaths : GetDirectoryTree(path)
  \/ GetCurrentPath
  \/ \E path \in ListPaths : ListDirectory(path)
  \/ \E a \in FindArgs : FindFiles(a.search_name, a.start_path)

Spec == Init /\ [][Next]_vars

\* The tree under construction: every sequence of _create_path calls, the
\* paths of separators alone among the paths, and get_path of its nodes.
NextCreate ==
  \/ \E path \in CreatePaths \cup SlashPaths, kind \in CreateKinds :
       CreatePath(path, kind.is_directory, kind.content)
  \/ \E node \in 1..Len(nodes) : GetPath(node)

SpecCreate == Init /\ [][NextCreate]_vars

\* The shell emulator (ShellEmulator.__init__, then the commands): the VFS
\* is loaded once, right after its construction, and only navigated and
\* queried afterwards.
NextShell ==
  \/ /\ last.op = "init"
     /\ \E rows \in CsvFiles : LoadFromCsv(rows)
  \/ \E path \in CdPaths : ChangeDirectory(path)
  \/ \E path \in QueryPaths : ReadFile(path)
  \/ \E path \in QueryPaths : GetDirectoryTree(path)
  \/ GetCurrentPath
  \/ \E args \in {<<>>} \cup {<<path>> : path \in ListPaths \ {<<>>}} :
       CmdLs(args)

SpecShell == Init /\ [][NextShell]_vars

(* ================================================================ claims *)

\* All the path strings of the model.
AllPaths == CreatePaths \cup CdPaths \cup QueryPaths

\* The node a createPath call of this path leaves at the path.
FinalNode(ns, path) == PrefixNode(ns, path, Len(PathParts(path)))

(* -------------------------------------------------------------------- C1 *)

\* C1, as stated: after any sequence of createPath calls, every proper
\* prefix of every path passed to createPath names a node of the tree that
\* is a directory.
C1_EveryPrefixIsADirectory ==
  \A P \in created : \A k \in 1..(Len(PathParts(P)) - 1) :
    /\ PrefixNode(nodes, P, k) # None
    /\ nodes[PrefixNode(nodes, P, k)].is_directory

\* C1, amended: every proper prefix of every path passed to createPath names
\* a node of the tree, and right after the call createPath(P, ..) returns,
\* every proper prefix of P is a directory (a later createPath of the prefix
\* itself with type file makes it a file).
C1_PrefixesExistAndAreDirectoriesAfterTheCall ==
  /\ \A P \in created : \A k \in 1..(Len(PathParts(P)) - 1) :
       PrefixNode(nodes, P, k) # None
  /\ (last.op = "create_path" /\ ~last.raised) =>
       \A k \in 1..(Len(PathParts(last.path)) - 1) :
         nodes[PrefixNode(nodes, last.path, k)].is_directory

\* A createPath of a path of two parts has returned, after other calls.
C1_Witness ==
  /\ last.op = "create_path" /\ ~last.raised
  /\ Len(PathParts(last.path)) >= 2
  /\ Cardinality(created) >= 2

(* -------------------------------------------------------------------- C2 *)

\* C2: createPath of a path written with a leading '/' and createPath of
\* the same path written without it produce the same tree from the same
\* tree, and the node created is the one resolvePath of the '/' form
\* returns.
C2_LeadingSlashMakesNoDifference ==
  [][ ( /\ last'.op = "create_path" /\ ~last'.raised
        /\ StartsWithSlash(last'.path)
        /\ ~StartsWithSlash(Tail(last'.path))
        /\ PathParts(Tail(last'.path)) # <<>> ) =>
      /\ nodes' = CreatePathOn(nodes, Tail(last'.path), last'.is_directory,
                               last'.content).nodes
      /\ ResolvePathOn(nodes', current_dir', last'.path)
           = FinalNode(nodes', last'.path) ]_vars

(* -------------------------------------------------------------------- C3 *)

\* The content load_from_csv is to store for a row: the decoded text for a
\* row with encoding base64 that decodes, else the content as written.
RowContent(row) ==
  IF row.encoding = <<"b", "a", "s", "e", "6", "4">>
     /\ ~B64DecodeUtf8(row.content).raised
  THEN B64DecodeUtf8(row.content).text
  ELSE row.content

\* Whether the parts of path p are the first parts of path q.
PathWithin(p, q) ==
  /\ Len(PathParts(p)) <= Len(PathParts(q))
  /\ SubSeq(PathParts(q), 1, Len(PathParts(p))) = PathParts(p)

\* C3: after the loader has processed a file row with an absolute path P
\* and content c, and no later row targets P or a path through P,
\* readFile(P) returns c.
C3_LoadThenReadRoundTrip ==
  last.op = "load_from_csv" =>
    \A i \in 1..last.applied :
      LET row == last.rows[i]
      IN  ( /\ row.type = <<"f", "i", "l", "e">>
            /\ StartsWithSlash(row.path)
            /\ \A j \in (i + 1)..last.applied :
                 ~PathWithin(row.path, last.rows[j].path) )
          => ReadFileOn(nodes, current_dir, row.path) = RowContent(row)

(* -------------------------------------------------------------------- C4 *)

\* What C4 asks of node A, the k-th prefix of the path of the createPath
\* call a step makes, after the step: A is a directory with empty content,
\* readFile of a path that resolves to A returns none, and the node created
\* is under A: found from A by the remaining names, and resolved from A by
\* them unless one of them is '..', which resolution reads as the parent.
CoercedAfterStep(A, parts, k) ==
  LET rest == SubSeq(parts, k + 1, Len(parts))
  IN  /\ ~last'.raised
      /\ nodes'[A].is_directory
      /\ nodes'[A].content = <<>>
      /\ \A q \in AllPaths :
           ResolvePathOn(nodes', current_dir', q) = A =>
             ReadFileOn(nodes', current_dir', q) = NoneStr
      /\ Descend(nodes', A, rest) # None
      /\ Descend(nodes', A, rest) = Descend(nodes', Root, parts)
      /\ (\A i \in 1..Len(rest) : rest[i] # <<".", ".">>) =>
           ResolveParts(nodes', A, rest) = Descend(nodes', A, rest)

OnWalk(ns, parts) == {Descend(ns, Root, SubSeq(parts, 1, k)) : k \in 0..Len(parts)}

\* C5: when createPath(P, isDir, c) is applied and the final node of P
\* exists already, that node takes the kind isDir, takes the content c if
\* isDir is false and keeps its content if isDir is true, and keeps its
\* children and its place among the children of its parent.  After any
\* createPath(P, isDir, c) the node at P has the kind isDir, and a node off
\* the path is left as it was, so the kind of the node at P is that of the
\* last call whose path is P or goes through P.
C5_LastWriteWinsAtFinalSegment ==
  [][ (last'.op = "create_path" /\ ~last'.raised) =>
        LET parts == PathParts(last'.path)
            n     == Descend(nodes, Root, parts)
        IN  /\ n # None =>
                 /\ Len(nodes') = Len(nodes)
                 /\ nodes'[n].is_directory = last'.is_directory
                 /\ nodes'[n].content =
                      (IF last'.is_directory THEN nodes[n].content
                       ELSE last'.content)
                 /\ nodes'[n].children = nodes[n].children
                 /\ nodes'[n].parent = nodes[n].parent
                 /\ nodes'[n].name = nodes[n].name
                 /\ nodes'[nodes[n].parent].children
                      = nodes[nodes[n].parent].children
            /\ Descend(nodes', Root, parts) # None
            /\ nodes'[Descend(nodes', Root, parts)].is_directory
                 = last'.is_directory
            /\ \A m \in 1..Len(nodes) :
                 m \notin OnWalk(nodes, parts) => nodes'[m] = nodes[m] ]_vars

\* A createPath of type directory has met a final node holding another
\* content than the one passed, next to a sibling and over a child.
C5_Witness ==
  /\ last.op = "create_path" /\ last.existed /\ last.is_directory
  /\ LET n == FinalNode(nodes, last.path)
     IN  /\ nodes[n].content # last.content
         /\ nodes[n].children # <<>>
         /\ Len(nodes[nodes[n].parent].children) >= 2

(* -------------------------------------------------------------------- C6 *)

RECURSIVE DirectoriesDownTo(_, _)
\* Whether node n and every node above it is a directory held by its parent
\* under its name, up to the root.
DirectoriesDownTo(ns, n) ==
  /\ ns[n].is_directory
  /\ \/ n = Root
     \/ /\ ns[n].parent # None
        /\ ChildNamed(ns, ns[n].parent, ns[n].name) = n
        /\ DirectoriesDownTo(ns, ns[n].parent)

\* C6: in every state reachable by createPath and changeDirectory calls,
\* currentDirectory is a directory reachable from the root by descending
\* only through directories.
C6_CurrentDirectoryIsAReachableDirectory ==
  DirectoriesDownTo(nodes, current_dir)

(* -------------------------------------------------------------------- C7 *)

\* C7: resolvePath(getCurrentPath()) is the node currentDirectory refers
\* to, getCurrentPath being '/' exactly when that node is the root and '/'
\* followed by the names from the root down joined by '/' otherwise.
C7_CurrentPathResolvesToCurrentDirectory ==
  LET p == GetCurrentPathOn(nodes, current_dir)
  IN  /\ ResolvePathOn(nodes, current_dir, p) = current_dir
      /\ ResolvePathOn(nodes, Root, p) = current_dir
      /\ (p = <<"/">>) <=> (current_dir = Root)
      /\ current_dir # Root =>
           /\ StartsWithSlash(p)
           /\ Descend(nodes, Root, AllButFirst(PathParts(p))) = current_dir

\* The current directory is two levels down, under a node createPath has
\* since turned into a file.
C7_Witness ==
  /\ current_dir # Root
  /\ nodes[current_dir].parent # Root
  /\ ~nodes[nodes[current_dir].parent].is_directory

(* -------------------------------------------------------------------- C8 *)

CdSpecial == { <<".", ".">>, <<"~">>, <<"/">> }

\* C8: changeDirectory(target), target not '..', '~' or '/', returns true
\* and sets currentDirectory to the resolved node if and only if target
\* resolves to a directory; otherwise it returns false and currentDirectory
\* is the node it was.  (last.from is the current directory of the call;
\* the call leaves the tree alone.)
C8_ChangeDirectoryNeedsADirectory ==
  (last.op = "change_directory" /\ last.path \notin CdSpecial) =>
    LET t == ResolvePathOn(nodes, last.from, last.path)
    IN  IF t # None /\ nodes[t].is_directory
        THEN last.ret = TRUE /\ current_dir = t
        ELSE last.ret = FALSE /\ current_dir = last.from

\* changeDirectory has been called, away from the root, on a target that
\* resolves to a file.
C8_Witness ==
  /\ last.op = "change_directory" /\ last.path \notin CdSpecial
  /\ last.from # Root
  /\ ResolvePathOn(nodes, last.from, last.path) # None
  /\ ~nodes[ResolvePathOn(nodes, last.from, last.path)].is_directory

(* -------------------------------------------------------------------- C9 *)

\* C9: changeDirectory('..') returns true, leaves a currentDirectory that
\* is the root on the root and moves any other to its parent;
\* changeDirectory('~') and changeDirectory('/') return true and set
\* currentDirectory to the root.
C9_ParentAndRootTargetsAlwaysSucceed ==
  /\ (last.op = "change_directory" /\ last.path = <<".", ".">>) =>
       /\ last.ret = TRUE
       /\ current_dir = (IF last.from = Root THEN Root
                         ELSE nodes[last.from].parent)
  /\ (last.op = "change_directory" /\ last.path \in {<<"~">>, <<"/">>}) =>
       /\ last.ret = TRUE
       /\ current_dir = Root

\* changeDirectory('..') has been called on the root.
C9_Witness ==
  /\ last.op = "change_directory" /\ last.path = <<".", ".">>
  /\ last.from = Root /\ current_dir = Root /\ last.ret = TRUE

(* ------------------------------------------------------------------- C10 *)

\* C10: in resolvePath a '..' consumed at the root is a no-op and not a
\* failure: from the root, '..' resolves to the root and '../x' to the node
\* 'x' resolves to.
C10_DotDotAtRootIsANoOp ==
  (last.op = "get_directory_tree" /\ current_dir = Root) =>
    /\ last.path = <<".", ".">> => last.ret = Root
    /\ ( /\ Len(last.path) > 3
         /\ SubSeq(last.path, 1, 3) = <<".", ".", "/">> ) =>
         last.ret = ResolvePathOn(nodes, Root,
                                  SubSeq(last.path, 4, Len(last.path)))

(* ------------------------------------------------------------------- C11 *)

\* The node the last call of list_directory listed.
ListTarget ==
  IF last.path # <<>> THEN ResolvePathOn(nodes, current_dir, last.path)
  ELSE current_dir

LsTarget ==
  IF last.args # <<>> /\ last.args[1] # <<>>
  THEN ResolvePathOn(nodes, current_dir, last.args[1])
  ELSE current_dir

\* C12, as stated: whenever the path fails to resolve or resolves to a
\* file, listDirectory returns the sentinel none, which is not the empty
\* sequence of an empty directory, and the ls of the shell, relying on it,
\* returns the exit code 1.
C12_FailedListingIsNoneAndLsExitsWithOne ==
  (last.op = "ls" /\ (LsTarget = None \/ ~nodes[LsTarget].is_directory)) =>
    /\ last.ret.is_none
    /\ last.exit = 1

(* ------------------------------------------------------------------- C13 *)

RECURSIVE UpToRoot(_, _)
\* The node n and the nodes on its parent chain.
UpToRoot(ns, n) ==
  IF n = None THEN {} ELSE {n} \cup UpToRoot(ns, ns[n].parent)

\* Node a comes before node b in the depth-first pre-order that visits the
\* children of a node in the order of their first insertion: a is above b,
\* or where their branches part the branch of a was inserted first.  The
\* arena gives a node its index when the node is constructed, which is when
\* it is inserted, and an upsert constructs no node: a smaller index is an
\* earlier first insertion.
PreOrderBefore(ns, a, b) ==
  \/ a # b /\ a \in UpToRoot(ns, b)
  \/ \E x \in UpToRoot(ns, a), y \in UpToRoot(ns, b) :
       /\ x # y /\ ns[x].parent = ns[y].parent /\ ns[x].parent # None
       /\ x < y

\* C13: findFiles returns its matches in depth-first pre-order, the
\* children of a node in the order of their first insertion (not sorted,
\* not changed by upserts): a matching parent before the matches inside it,
\* and for siblings inserted as b then a, every match at or under b before
\* every match at or under a.
C13_FindFilesInInsertionPreOrder ==
  last.op = "find_files" =>
    \A i, j \in 1..Len(last.ret) : i < j =>
      PreOrderBefore(nodes, last.ret[i].node, last.ret[j].node)

\* A search returned a parent before a match inside it, and two siblings
\* in the order of their insertion, which is not the order of their names.
C13_Witness ==
  /\ last.op = "find_files"
  /\ \E i, j \in 1..Len(last.ret) :
       /\ i < j
       /\ nodes[last.ret[j].node].parent = last.ret[i].node
  /\ \E i, j \in 1..Len(last.ret) :
       /\ i < j
       /\ nodes[last.ret[i].node].parent = nodes[last.ret[j].node].parent
       /\ StrLess(nodes[last.ret[j].node].name, nodes[last.ret[i].node].name)

(* ------------------------------------------------------------------- C14 *)

\* The path tokenizes to zero segments: it is empty or holds separators
\* only.
ZeroSegments(path) == \A i \in 1..Len(path) : path[i] = "/"

\* C14, as stated: createPath with a path of zero segments (the empty
\* string, or '/' separators alone) fails, and leaves the tree and
\* currentDirectory unchanged: no node is created.
C14_ZeroSegmentPathFailsAndCreatesNothing ==
  [][\A path \in CreatePaths \cup SlashPaths, kind \in CreateKinds :
       (CreatePath(path, kind.is_directory, kind.content)
          /\ ZeroSegments(path)) =>
         /\ last'.raised
         /\ nodes' = nodes
         /\ current_dir' = current_dir]_vars

(* ------------------------------------------------------------------- C15 *)

\* The load of the first k rows of a file into a fresh VFS.
LoadOfFirst(rows, k) == LoadRows(FreshNodes, SubSeq(rows, 1, k), 0, {})

\* The row has a path, and the path has a part for createPath to create.
GoodPath(row) == row.path # NoneStr /\ PathParts(Strip(row.path)) # <<>>

\* C15: when the Loader aborts at row k (a row without a path, or a row
\* whose createPath fails), the tree is exactly the tree of the rows
\* 1..k-1 applied in order: the earlier rows are not rolled back, row k
\* leaves no node, no row after k is applied.
C15_AbortKeepsExactlyTheEarlierRows ==
  last.op = "load_from_csv" =>
    \A k \in 1..Len(last.rows) :
      ( /\ \A i \in 1..(k - 1) : GoodPath(last.rows[i])
        /\ ~GoodPath(last.rows[k]) )
      => /\ last.aborted
         /\ last.applied = k - 1
         /\ ~LoadOfFirst(last.rows, k - 1).aborted
         /\ nodes = LoadOfFirst(last.rows, k - 1).nodes

\* A load was aborted at its second row, the first row having made a node.
C15_Witness ==
  /\ last.op = "load_from_csv" /\ last.aborted
  /\ last.applied = 1 /\ Len(last.rows) = 2
  /\ Len(nodes) >= 2

(* ------------------------------------------------------------------- C16 *)

\* The row is a file row with encoding base64 whose content does not
\* decode.
DecodeFails(row) ==
  /\ row.type = <<"f", "i", "l", "e">>
  /\ row.encoding = <<"b", "a", "s", "e", "6", "4">>
  /\ B64DecodeUtf8(row.content).raised

\* C16: for a row with encoding base64 whose content fails to decode, the
\* Loader does not abort: createPath is called with the raw content of the
\* row, and every subsequent row is still applied in order.
C16_DecodeFailureKeepsRawContentAndGoesOn ==
  last.op = "load_from_csv" =>
    \A i \in 1..Len(last.rows) :
      ( /\ DecodeFails(last.rows[i])
        /\ \A j \in 1..i : GoodPath(last.rows[j]) )
      => LET row   == last.rows[i]
             ns_i  == LoadOfFirst(last.rows, i).nodes
             n     == FinalNode(ns_i, Strip(row.path))
             after == SubSeq(last.rows, i + 1, Len(last.rows))
         IN  /\ last.applied >= i
             /\ n # None
             /\ ~ns_i[n].is_directory
             /\ ns_i[n].content = row.content
             /\ nodes = LoadRows(ns_i, after, 0, {}).nodes
             /\ (\A j \in 1..Len(last.rows) : GoodPath(last.rows[j])) =>
                  ~last.aborted /\ last.applied = Len(last.rows)

\* A load whose first row failed to decode applied its second row, which
\* made another node.
C16_Witness ==
  /\ last.op = "load_from_csv" /\ Len(last.rows) = 2
  /\ DecodeFails(last.rows[1]) /\ GoodPath(last.rows[1])
  /\ last.applied = 2
  /\ Len(nodes) > Len(LoadOfFirst(last.rows, 1).nodes)

(* ------------------------------------------------------------------- C17 *)

\* C17, as stated: fullPath(n) is '/' followed by the names on the parent
\* chain from the child of the root down to n, joined with '/', and exactly
\* '/' for the root; resolvePath(fullPath(n)) returns n.
C17_FullPathIsSlashThenNamesAndResolvesBack ==
  last.op = "get_path" =>
    /\ last.ret = <<"/">> \o JoinSlash(Reversed(NamesToRoot(nodes, last.node)))
    /\ ResolvePathOn(nodes, current_dir, last.ret) = last.node

(* ------------------------------------------------------------------- C18 *)

\* C18, as stated: after any sequence of createPath calls, every node with
\* isDirectory false has an empty children map, also after createPath has
\* overwritten a non-empty directory at its final segment with type file.
C18_FileNodesHaveNoChildren ==
  \A n \in 1..Len(nodes) : ~nodes[n].is_directory => nodes[n].children = <<>>

(* ------------------------------------------------------------------- C19 *)

RECURSIVE DescendsFromFile(_, _, _)
\* Whether the walk over these parts from this node steps from a node that
\* is a file to one of its children.
DescendsFromFile(ns, node, parts) ==
  IF parts = <<>> THEN FALSE
  ELSE IF Head(parts) = <<".">> THEN DescendsFromFile(ns, node, Tail(parts))
  ELSE IF Head(parts) = <<".", ".">>
       THEN ns[node].parent # None
            /\ DescendsFromFile(ns, ns[node].parent, Tail(parts))
  ELSE /\ ChildNamed(ns, node, Head(parts)) # None
       /\ \/ ~ns[node].is_directory
          \/ DescendsFromFile(ns, ChildNamed(ns, node, Head(parts)),
                              Tail(parts))

\* Whether the resolution of path, the current directory being cur, has to
\* descend from a file.
ThroughFile(ns, cur, path) ==
  IF StartsWithSlash(path)
  THEN DescendsFromFile(ns, Root, AllButFirst(PathParts(path)))
  ELSE DescendsFromFile(ns, cur, PathParts(path))

\* C19, as stated: resolvePath, and with it readFile, changeDirectory and
\* getDirectoryTree, yields none (false) whenever the resolution would have
\* to descend from a node that is a file to one of its children, a former
\* directory that createPath flipped to a file included.
C19_NoResolutionThroughAFile ==
  /\ (last.op = "get_directory_tree"
        /\ ThroughFile(nodes, current_dir, last.path)) => last.ret = None
  /\ (last.op = "read_file"
        /\ ThroughFile(nodes, current_dir, last.path)) => last.ret = NoneStr
  /\ (last.op = "change_directory" /\ last.path \notin CdSpecial
        /\ ThroughFile(nodes, last.from, last.path)) => ~last.ret

(* ------------------------------------------------------------------- C20 *)

\* The calls that only read: resolvePath is what get_directory_tree
\* returns.
ReadOnlyOps ==
  { "get_directory_tree", "list_directory", "read_file", "get_current_path",
    "find_files" }

\* C20: resolvePath, listDirectory, readFile, getCurrentPath, findFiles and
\* getDirectoryTree leave the tree (the name, kind, content, children and
\* parent of every node) and currentDirectory unchanged; changeDirectory
\* leaves the tree unchanged; createPath leaves the node currentDirectory
\* refers to the same node.
C20_Frame ==
  [][ /\ last'.op \in ReadOnlyOps =>
           nodes' = nodes /\ current_dir' = current_dir
      /\ last'.op = "change_directory" => nodes' = nodes
      /\ last'.op = "create_path" =>
           /\ current_dir' = current_dir
           /\ nodes'[current_dir].name = nodes[current_dir].name
           /\ nodes'[current_dir].parent = nodes[current_dir].parent ]_vars

\* A search from a start that resolves to a directory other than the
\* current one was made in a tree of three nodes.
C20_Witness ==
  /\ last.op = "find_files"
  /\ Len(nodes) >= 3
  /\ ResolvePathOn(nodes, current_dir, last.start_path) \notin {None, current_dir}

(* ------------------------------------------------------------------- C21 *)

RECURSIVE ParentAfter(_, _, _)
\* The node k parent references above node n, None past a node without
\* parent.
ParentAfter(ns, n, k) ==
  IF k = 0 \/ n = None THEN n ELSE ParentAfter(ns, ns[n].parent, k - 1)

\* The entries of the children maps that hold node c: the node and the
\* position.
EntriesOf(ns, c) ==
  {e \in (1..Len(ns)) \X (1..Len(ns)) :
     e[2] <= Len(ns[e[1]].children) /\ ns[e[1]].children[e[2]] = c}

\* C21: after any sequence of createPath calls the tree is well formed.
\* The root has no parent, is a directory and has the empty name; every
\* entry of the children of a node n is keyed by the name of the child (no
\* two entries of n under one name) and the child's parent is n; the parent
\* references from any node reach the root in finitely many steps; no node
\* is a child of two nodes.
C21_TreeIsWellFormed ==
  /\ nodes[Root].parent = None
  /\ nodes[Root].is_directory
  /\ nodes[Root].name = <<>>
  /\ \A n \in 1..Len(nodes) :
       LET kids == nodes[n].children
       IN  /\ \A i \in 1..Len(kids) :
                /\ kids[i] \in 1..Len(nodes)
                /\ nodes[kids[i]].parent = n
                /\ ChildNamed(nodes, n, nodes[kids[i]].name) = kids[i]
           /\ \A i, j \in 1..Len(kids) :
                nodes[kids[i]].name = nodes[kids[j]].name => i = j
  /\ \A n \in 1..Len(nodes) :
       \E k \in 0..(Len(nodes) - 1) : ParentAfter(nodes, n, k) = Root
  /\ \A c \in 1..Len(nodes) :
       Cardinality(EntriesOf(nodes, c)) = IF c = Root THEN 0 ELSE 1

\* createPath has upserted an existing node in a tree that has a node with
\* two children and a node two levels below the root.
C21_Witness ==
  /\ last.op = "create_path" /\ last.existed
  /\ \E n \in 1..Len(nodes) : Len(nodes[n].children) >= 2
  /\ \E n \in 1..Len(nodes) : ParentAfter(nodes, n, 2) = Root

(* ------------------------------------------------------------------- C22 *)

\* C22: createPath is idempotent.  From any reachable state, the call
\* createPath(P, isDir, c) made a second time right after itself leaves the
\* tree the first call made: the same nodes, kinds, contents and order of
\* children.
C22_CreatePathIsIdempotent ==
  last.op = "create_path" =>
    LET again == CreatePathOn(nodes, last.path, last.is_directory,
                              last.content)
    IN  /\ again.nodes = nodes
        /\ again.raised = last.raised

\* createPath has made a node below a file it turned into a directory, in
\* a tree of three nodes or more.
C22_Witness ==
  /\ last.op = "create_path" /\ ~last.raised
  /\ last.coerced /\ ~last.existed
  /\ Len(nodes) >= 3

(* ------------------------------------------------------------------- C23 *)

\* The proper descendants of node start that are reached from it by
\* descending through directory children only: every node between start
\* and the descendant is a directory.
ReachedThroughDirectories(ns, start) ==
  {d \in 1..Len(ns) :
     /\ d # start /\ start \in UpToRoot(ns, d)
     /\ \A x \in UpToRoot(ns, d) \ {d} :
          (x # start /\ start \in UpToRoot(ns, x)) => ns[x].is_directory}

\* C23, as stated: findFiles(sub, start) returns exactly one path for each
\* proper descendant of the resolved start node that is reached through
\* directory children only and whose name contains sub, directories
\* included, never the start node itself; the children of file nodes are
\* never visited; an unresolved start yields the empty sequence.
C23_FindFilesReturnsExactlyTheMatchesUnderDirectories ==
  last.op = "find_files" =>
    LET start == ResolvePathOn(nodes, current_dir, last.start_path)
        found == {last.ret[i].node : i \in 1..Len(last.ret)}
    IN  IF start = None THEN last.ret = <<>>
        ELSE /\ Cardinality(found) = Len(last.ret)
             /\ found = {d \in ReachedThroughDirectories(nodes, start) :
                           Contains(nodes[d].name, last.search_name)}
             /\ \A d \in found : nodes[nodes[d].parent].is_directory

====
